---- MODULE Spec2Model ----
(***************************************************************************)
(* A model of the yfp library: the Maybe container (src/src/maybe.ts) and  *)
(* the Result container (src/src/result.ts).                               *)
(*                                                                         *)
(* JavaScript values are records tagged by "kind".  A method call is an   *)
(* operator that yields an outcome: what the call returned or threw, and   *)
(* the arguments its callback was invoked with, in order.                  *)
(***************************************************************************)
EXTENDS Integers, Sequences, FiniteSets, TLC

VARIABLES
  op,        \* name of the last library call ("init" before any call)
  self,      \* receiver (or single argument) of the last call
  fn,        \* name of the callback handed to the last call ("none" if none)
  fn2,       \* name of the second callback (the Err arm of match)
  alt,       \* second value argument of the last call (Undefined if none)
  list,      \* array argument of the last call (Result.all)
  out,       \* outcome of the last call
  heap,      \* instances alive, by address: their own fields and frozen flag
  built,     \* for each address, the fields its constructor set
  pc,        \* position of the caller of wrapAsync / wrapPromise
  kindOfFn,  \* what was wrapped: an async function, a function, a promise
  payload,   \* the value the wrapped function returned or threw at once
  promise,   \* state of the promise the wrapped computation produced
  resultP,   \* state of the promise the wrapper returned
  callerExc  \* exception raised synchronously to the caller, if any

opVars == <<op, self, fn, fn2, alt, list, out>>
heapVars == <<heap, built>>
asyncVars == <<pc, kindOfFn, payload, promise, resultP, callerExc>>
vars == <<op, self, fn, fn2, alt, list, out, heap, built,
          pc, kindOfFn, payload, promise, resultP, callerExc>>

----------------------------------------------------------------------------
(* Bounds *)

\* nesting depth of the payloads the calls are tried on
MaxDepth == 1
\* longest array handed to Result.all
MaxLen == 3
\* number of instances the heap may hold, the shared None included
MaxHeap == 3

----------------------------------------------------------------------------
(* JavaScript values *)

Undefined == [kind |-> "undefined"]
Null == [kind |-> "null"]
Bool(b) == [kind |-> "boolean", b |-> b]
Num(n) == [kind |-> "number", n |-> n]
Str(s) == [kind |-> "string", s |-> s]
\* a plain object literal {k: v}
Obj(k, v) == [kind |-> "object", fields |-> (k :> v)]
Arr(items) == [kind |-> "array", items |-> items]
\* new Error(message); stack names the place that created it
NewError(message, stack) ==
  [kind |-> "Error", message |-> message, stack |-> stack]

\* JavaScript truthiness, as `if (x)` and `!x` and `&&` read it
Truthy(v) ==
  CASE v.kind = "undefined" -> FALSE
    [] v.kind = "null" -> FALSE
    [] v.kind = "boolean" -> v.b
    [] v.kind = "number" -> v.n # 0
    [] v.kind = "string" -> v.s # ""
    [] OTHER -> TRUE

\* typeof v
TypeOf(v) ==
  CASE v.kind \in {"undefined", "boolean", "number", "string"} -> v.kind
    [] OTHER -> "object"

\* `k in obj`, for obj an object
In(k, obj) ==
  CASE obj.kind = "object" -> k \in DOMAIN obj.fields
    [] obj.kind = "Maybe" -> k \in {"isSome", "value", "isNone"}
    [] obj.kind = "Result" -> k \in {"isOk", "value", "error", "isErr"}
    [] obj.kind = "array" -> k = "length"
    [] obj.kind = "Error" -> k \in {"message", "stack"}
    [] OTHER -> FALSE

\* obj[k], for obj an object; isNone and isErr are the getters of the classes
Get(obj, k) ==
  CASE obj.kind = "object" ->
         IF k \in DOMAIN obj.fields THEN obj.fields[k] ELSE Undefined
    [] obj.kind = "Maybe" ->
         CASE k = "isSome" -> Bool(obj.isSome)
           [] k = "isNone" -> Bool(~obj.isSome)
           [] k = "value" -> obj.value
           [] OTHER -> Undefined
    [] obj.kind = "Result" ->
         CASE k = "isOk" -> Bool(obj.isOk)
           [] k = "isErr" -> Bool(~obj.isOk)
           [] k = "value" -> obj.value
           [] k = "error" -> obj.error
           [] OTHER -> Undefined
    [] OTHER -> Undefined

----------------------------------------------------------------------------
(* Outcomes of a call *)

Return(v, calls) == [calls |-> calls, tag |-> "return", val |-> v]
Throw(e, calls) == [calls |-> calls, tag |-> "throw", val |-> e]

----------------------------------------------------------------------------
(* Maybe: constructors and the methods that take no callback *)

\* new internalMaybe(isSome, value)
internalMaybe(isSome, value) ==
  [kind |-> "Maybe", isSome |-> isSome, value |-> value]

Some(value) == internalMaybe(TRUE, value)

None == internalMaybe(FALSE, Undefined)

\* the getter isNone
Maybe_isNone(this) == ~this.isSome

\* a check that accepts every value but null and undefined (mutant)
isMaybe_anyTruthy(obj) == obj.kind \notin {"undefined", "null"}

isMaybe(obj) ==
  /\ TypeOf(obj) = "object"
  /\ obj # Null
  /\ In("isSome", obj)
  /\ TypeOf(Get(obj, "isSome")) = "boolean"

\* unwrap that tests the payload instead of the discriminant (mutant)
Maybe_unwrap_byValue(this) ==
  IF Truthy(this.value)
    THEN Return(this.value, <<>>)
    ELSE Throw(NewError("Tried to unwrap None",
                        "internalMaybe.unwrap"), <<>>)

Maybe_unwrap(this) ==
  IF this.isSome
    THEN Return(this.value, <<>>)
    ELSE Throw(NewError("Tried to unwrap None",
                        "internalMaybe.unwrap"), <<>>)

Maybe_unwrapOr(this, altValue) ==
  IF this.isSome THEN Return(this.value, <<>>) ELSE Return(altValue, <<>>)

Maybe_or(this, optb) ==
  IF this.isSome THEN Return(this, <<>>) ELSE Return(optb, <<>>)

Maybe_json(this) ==
  IF this.isSome
    THEN Return(Obj("#some", this.value), <<>>)
    ELSE Return(Null, <<>>)

Maybe_flatten(this) ==
  IF Maybe_isNone(this) THEN Return(None, <<>>)
  ELSE IF ~isMaybe(this.value)
    THEN Throw(NewError("Called flatten() on non-Maybe<Maybe<_>>",
                        "internalMaybe.flatten"), <<>>)
  ELSE IF Truthy(Get(this.value, "isNone")) THEN Return(None, <<>>)
  ELSE Return(this.value, <<>>)

Maybe_parse(obj) ==
  IF obj = Null THEN Return(None, <<>>) ELSE Return(Some(Get(obj, "#some")), <<>>)

Maybe_falsy(value) ==
  IF ~Truthy(value) THEN Return(None, <<>>) ELSE Return(Some(value), <<>>)

Maybe_nullish(value) ==
  IF value = Null \/ value = Undefined
    THEN Return(None, <<>>)
    ELSE Return(Some(value), <<>>)

----------------------------------------------------------------------------
(* Result: constructors and the methods that take no callback *)

\* new internalResult(isOk, value, error)
internalResult(isOk, value, error) ==
  [kind |-> "Result",
   value |-> IF isOk THEN value ELSE Undefined,
   isOk |-> isOk,
   error |-> IF isOk THEN Undefined ELSE error]

Ok(value) == internalResult(TRUE, value, Undefined)

Err(error) == internalResult(FALSE, Undefined, error)

\* the getter isErr
Result_isErr(this) == ~this.isOk

isResult(obj) ==
  /\ TypeOf(obj) = "object"
  /\ obj # Null
  /\ In("isOk", obj)
  /\ TypeOf(Get(obj, "isOk")) = "boolean"

\* flatten that inspects the payload before the discriminant (mutant)
Result_flatten_eager(this) ==
  IF ~isResult(IF this.isOk THEN this.value ELSE this.error)
    THEN Throw(NewError("Called flatten() on non-Result<Result<_>>",
                        "internalResult.flatten"), <<>>)
    ELSE Return(IF this.isOk THEN this.value ELSE this.error, <<>>)

Result_flatten(this) ==
  IF Result_isErr(this) THEN Return(this, <<>>)
  ELSE IF ~isResult(this.value)
    THEN Throw(NewError("Called flatten() on non-Result<Result<_>>",
                        "internalResult.flatten"), <<>>)
  ELSE Return(this.value, <<>>)

Result_unwrap(this) ==
  IF this.isOk
    THEN Return(this.value, <<>>)
    ELSE Throw(NewError("Tried to unwrap Err",
                        "internalResult.unwrap"), <<>>)

Result_unwrapErr(this) ==
  IF Result_isErr(this)
    THEN Return(this.error, <<>>)
    ELSE Throw(NewError("Tried to unwrapErr Ok",
                        "internalResult.unwrapErr"), <<>>)

Result_unwrapOr(this, altValue) ==
  IF this.isOk THEN Return(this.value, <<>>) ELSE Return(altValue, <<>>)

\* unwrapOrThrow that wraps the error payload in a new Error (mutant)
Result_unwrapOrThrow_wrapped(this) ==
  IF this.isOk
    THEN Return(this.value, <<>>)
    ELSE Throw(NewError("Tried to unwrap Err", "internalResult.unwrapOrThrow"),
               <<>>)

Result_unwrapOrThrow(this) ==
  IF this.isOk THEN Return(this.value, <<>>) ELSE Throw(this.error, <<>>)

Result_json(this) ==
  IF this.isOk
    THEN Return(Obj("#ok", this.value), <<>>)
    ELSE Return(Obj("#err", this.error), <<>>)

\* parse that dispatches on the truthiness of ser["#ok"] (mutant)
Result_parse_truthy(ser) ==
  IF Truthy(Get(ser, "#ok"))
    THEN Return(Ok(Get(ser, "#ok")), <<>>)
    ELSE Return(Err(Get(ser, "#err")), <<>>)

Result_parse(ser) ==
  IF In("#ok", ser)
    THEN Return(Ok(Get(ser, "#ok")), <<>>)
    ELSE Return(Err(Get(ser, "#err")), <<>>)

Result_throwErr(result) ==
  IF Result_isErr(result)
    THEN LET e == Result_unwrapErr(result)
         IN  IF e.tag = "throw" THEN e ELSE Throw(e.val, <<>>)
    ELSE Return(Undefined, <<>>)

----------------------------------------------------------------------------
(* The values and callbacks the calls are tried on *)

\* an Error object the caller made
UserError == NewError("boom", "caller")

Prims ==
  {Undefined, Null, Bool(TRUE), Bool(FALSE), Num(0), Num(1), Str("boom"),
   UserError}

Keys == {"#some", "#ok", "#err", "isSome", "isOk"}

\* every value one constructor or object literal away from a value of V
Wrap(V) ==
  {Some(v) : v \in V} \cup {None} \cup {Ok(v) : v \in V}
    \cup {Err(v) : v \in V} \cup {Obj(k, v) : k \in Keys, v \in V}

RECURSIVE Val(_)
Val(d) == IF d = 0 THEN Prims ELSE Val(d - 1) \cup Wrap(Val(d - 1))

Payloads == Val(MaxDepth)
Maybes == {Some(v) : v \in Payloads} \cup {None}
Results == {Ok(v) : v \in Payloads} \cup {Err(v) : v \in Payloads}

\* callbacks a caller may hand to the library
Fns ==
  {"identity", "constant", "toSome", "toOk", "throwBoom",
   "misuseUnwrap", "misuseUnwrapErr", "misuseFlatten"}

\* callbacks that never raise
TotalFns == {"identity", "constant", "toSome", "toOk"}

\* callbacks that break a contract of the library
MisuseFns == {"misuseUnwrap", "misuseUnwrapErr", "misuseFlatten"}

Called(f, x) == <<[f |-> f, x |-> x]>>

\* f(x): the outcome of the callback named f on argument x
Apply(f, x) ==
  CASE f = "identity" -> Return(x, Called(f, x))
    [] f = "constant" -> Return(Num(1), Called(f, x))
    [] f = "toSome" -> Return(Some(x), Called(f, x))
    [] f = "toOk" -> Return(Ok(x), Called(f, x))
    [] f = "throwBoom" -> Throw(Str("boom"), Called(f, x))
    [] f = "misuseUnwrap" -> [Maybe_unwrap(None) EXCEPT !.calls = Called(f, x)]
    [] f = "misuseUnwrapErr" ->
         [Result_unwrapErr(Ok(x)) EXCEPT !.calls = Called(f, x)]
    [] f = "misuseFlatten" ->
         [Maybe_flatten(Some(Num(0))) EXCEPT !.calls = Called(f, x)]

\* the exceptions the library raises on a broken contract
IsViolation(e) == e.kind = "Error" /\ e.stack # "caller"

----------------------------------------------------------------------------
(* Maybe: the methods that take a callback *)

Maybe_filter(this, predicate) ==
  IF this.isSome
    THEN LET r == Apply(predicate, this.value)
         IN  IF r.tag = "throw" THEN r
             ELSE IF Truthy(r.val) THEN Return(this, r.calls)
             ELSE Return(None, r.calls)
    ELSE Return(None, <<>>)

Maybe_inspect(this, f) ==
  IF this.isSome
    THEN LET r == Apply(f, this.value)
         IN  IF r.tag = "throw" THEN r ELSE Return(this, r.calls)
    ELSE Return(this, <<>>)

Maybe_isSomeAnd(this, f) ==
  IF this.isSome THEN Apply(f, this.value) ELSE Return(Bool(FALSE), <<>>)

Maybe_map(this, f) ==
  IF this.isSome
    THEN LET r == Apply(f, this.value)
         IN  IF r.tag = "throw" THEN r ELSE Return(Some(r.val), r.calls)
    ELSE Return(None, <<>>)

Maybe_unwrapOrElse(this, getAltValue) ==
  IF this.isSome
    THEN Return(this.value, <<>>)
    ELSE Apply(getAltValue, Undefined)

\* the comparators Maybe.eq is tried with; "default" is (a, b) => a === b
EqFns == {"default", "never", "misuseUnwrap"}

Maybe_eq(a, b, eq) ==
  IF Maybe_isNone(a) /\ Maybe_isNone(b) THEN Return(Bool(TRUE), <<>>)
  ELSE IF a.isSome /\ b.isSome
    THEN LET x == Maybe_unwrap(a)
             y == Maybe_unwrap(b)
         IN  CASE x.tag = "throw" -> x
               [] y.tag = "throw" -> y
               [] eq = "default" -> Return(Bool(x.val = y.val), <<>>)
               [] eq = "never" -> Return(Bool(FALSE), Called(eq, x.val))
               [] OTHER -> Apply(eq, x.val)
  ELSE Return(Bool(FALSE), <<>>)

----------------------------------------------------------------------------
(* Result: the methods that take a callback, and the namespace helpers *)

\* map that turns an exception of f into an Err, as Result.wrap does (mutant)
Result_map_catching(this, f) ==
  IF this.isOk
    THEN LET r == Apply(f, this.value)
         IN  IF r.tag = "throw"
               THEN Return(Err(r.val), r.calls)
               ELSE Return(Ok(r.val), r.calls)
    ELSE Return(this, <<>>)

\* map that runs f on either variant (mutant)
Result_map_always(this, f) ==
  LET r == Apply(f, IF this.isOk THEN this.value ELSE this.error)
  IN  IF r.tag = "throw" THEN r
      ELSE IF this.isOk THEN Return(Ok(r.val), r.calls)
      ELSE Return(this, r.calls)

Result_map(this, f) ==
  IF this.isOk
    THEN LET r == Apply(f, this.value)
         IN  IF r.tag = "throw" THEN r ELSE Return(Ok(r.val), r.calls)
    ELSE Return(this, <<>>)

Result_mapErr(this, f) ==
  IF Result_isErr(this)
    THEN LET r == Apply(f, this.error)
         IN  IF r.tag = "throw" THEN r ELSE Return(Err(r.val), r.calls)
    ELSE Return(this, <<>>)

Result_match(this, armOk, armErr) ==
  IF this.isOk THEN Apply(armOk, this.value) ELSE Apply(armErr, this.error)

Result_unwrapOrElse(this, altGetter) ==
  IF this.isOk THEN Return(this.value, <<>>) ELSE Apply(altGetter, this.error)

\* the loop of Result.all from index i on, errors and values so far
RECURSIVE AllLoop(_, _, _, _)
AllLoop(results, i, errors, values) ==
  IF i > Len(results)
    THEN IF Len(errors) = 0
           THEN Return(Ok(Arr(values)), <<>>)
           ELSE Return(Err(Arr(errors)), <<>>)
  ELSE IF Result_isErr(results[i])
    THEN LET e == Result_unwrapErr(results[i])
         IN  IF e.tag = "throw" THEN e
             ELSE AllLoop(results, i + 1, Append(errors, e.val), values)
  ELSE LET v == Result_unwrap(results[i])
       IN  IF v.tag = "throw" THEN v
           ELSE AllLoop(results, i + 1, errors, Append(values, v.val))

\* all that stops at the first error (mutant)
Result_all_failFast(results) ==
  LET errs == SelectSeq(results, LAMBDA r : ~r.isOk)
  IN  IF Len(errs) = 0
        THEN Return(Ok(Arr([i \in 1..Len(results) |-> results[i].value])), <<>>)
        ELSE Return(Err(Arr(<<errs[1].error>>)), <<>>)

Result_all(results) == AllLoop(results, 1, <<>>, <<>>)

\* Result.wrap(f)(x)
Result_wrap(f, x) ==
  LET r == Apply(f, x)
  IN  IF r.tag = "throw"
        THEN Return(Err(r.val), r.calls)
        ELSE Return(Ok(r.val), r.calls)

----------------------------------------------------------------------------
(* Instances as objects with identity *)

\* a reference to the instance at address a
Ref(a) == [kind |-> "ref", addr |-> a]

\* an object just made by `new`, with the fields its constructor set
NewObject(fields) == [own |-> fields, frozen |-> FALSE]

\* Object.freeze(obj)
Freeze(obj) == [obj EXCEPT !.frozen = TRUE]

\* Some that forgets to freeze the instance (mutant)
SomeObject_notFrozen(value) == NewObject(internalMaybe(TRUE, value))

\* Some(value): a new frozen instance
SomeObject(value) == Freeze(NewObject(internalMaybe(TRUE, value)))

\* the shared None, made once when the module loads
NoneObject == Freeze(NewObject(internalMaybe(FALSE, Undefined)))

\* Ok(value) and Err(error): new frozen instances
OkObject(value) == Freeze(NewObject(internalResult(TRUE, value, Undefined)))
ErrObject(error) == Freeze(NewObject(internalResult(FALSE, Undefined, error)))

\* the address of the shared None
NoneAddr == 1

----------------------------------------------------------------------------
(* The caller: one library call per behaviour.  The caller starts with no  *)
(* call made, makes one call and keeps its outcome; Maybe.parse and        *)
(* Result.parse are then applied to the wire form a json() call returned.  *)

\* the arrays Result.all is tried on
AllPayloads == {Undefined, Num(1), Str("boom")}
AllElems == {Ok(v) : v \in AllPayloads} \cup {Err(v) : v \in AllPayloads}
RECURSIVE SeqsUpTo(_, _)
SeqsUpTo(S, n) ==
  IF n = 0 THEN {<<>>}
  ELSE LET shorter == SeqsUpTo(S, n - 1)
       IN  shorter \cup {Append(q, x) : q \in {r \in shorter : Len(r) = n - 1}, x \in S}

\* the primitives Maybe.eq compares with ===
EqPrims == {Undefined, Null, Num(0), Num(1), Str("boom")}

\* record the call and its outcome
Record(name, s, f, g, a, l, o) ==
  /\ op' = name
  /\ self' = s
  /\ fn' = f
  /\ fn2' = g
  /\ alt' = a
  /\ list' = l
  /\ out' = o

MaybeFilter ==
  /\ op = "init"
  /\ \E m \in Maybes, f \in Fns :
       Record("Maybe.filter", m, f, "none", Undefined, <<>>, Maybe_filter(m, f))
  /\ UNCHANGED <<heapVars, asyncVars>>

MaybeInspect ==
  /\ op = "init"
  /\ \E m \in Maybes, f \in Fns :
       Record("Maybe.inspect", m, f, "none", Undefined, <<>>, Maybe_inspect(m, f))
  /\ UNCHANGED <<heapVars, asyncVars>>

MaybeIsSomeAnd ==
  /\ op = "init"
  /\ \E m \in Maybes, f \in Fns :
       Record("Maybe.isSomeAnd", m, f, "none", Undefined, <<>>,
              Maybe_isSomeAnd(m, f))
  /\ UNCHANGED <<heapVars, asyncVars>>

MaybeMap ==
  /\ op = "init"
  /\ \E m \in Maybes, f \in Fns :
       Record("Maybe.map", m, f, "none", Undefined, <<>>, Maybe_map(m, f))
  /\ UNCHANGED <<heapVars, asyncVars>>

MaybeOr ==
  /\ op = "init"
  /\ \E m \in Maybes, b \in {None, Some(Num(0)), Some(None)} :
       Record("Maybe.or", m, "none", "none", b, <<>>, Maybe_or(m, b))
  /\ UNCHANGED <<heapVars, asyncVars>>

MaybeUnwrap ==
  /\ op = "init"
  /\ \E m \in Maybes :
       Record("Maybe.unwrap", m, "none", "none", Undefined, <<>>, Maybe_unwrap(m))
  /\ UNCHANGED <<heapVars, asyncVars>>

MaybeUnwrapOr ==
  /\ op = "init"
  /\ \E m \in Maybes, a \in Prims :
       Record("Maybe.unwrapOr", m, "none", "none", a, <<>>, Maybe_unwrapOr(m, a))
  /\ UNCHANGED <<heapVars, asyncVars>>

MaybeUnwrapOrElse ==
  /\ op = "init"
  /\ \E m \in Maybes, f \in Fns :
       Record("Maybe.unwrapOrElse", m, f, "none", Undefined, <<>>,
              Maybe_unwrapOrElse(m, f))
  /\ UNCHANGED <<heapVars, asyncVars>>

MaybeJson ==
  /\ op = "init"
  /\ \E m \in Maybes :
       Record("Maybe.json", m, "none", "none", Undefined, <<>>, Maybe_json(m))
  /\ UNCHANGED <<heapVars, asyncVars>>

\* Maybe.parse of the wire form the last json() call produced
MaybeParse ==
  /\ op = "Maybe.json"
  /\ out.tag = "return"
  /\ Record("Maybe.parse", self, "none", "none", out.val, <<>>,
            Maybe_parse(out.val))
  /\ UNCHANGED <<heapVars, asyncVars>>

MaybeFlatten ==
  /\ op = "init"
  /\ \E m \in Maybes :
       Record("Maybe.flatten", m, "none", "none", Undefined, <<>>,
              Maybe_flatten(m))
  /\ UNCHANGED <<heapVars, asyncVars>>

MaybeEq ==
  /\ op = "init"
  /\ \E a \in {Some(v) : v \in EqPrims} \cup {None},
        b \in {Some(v) : v \in EqPrims} \cup {None}, e \in EqFns :
       Record("Maybe.eq", a, e, "none", b, <<>>, Maybe_eq(a, b, e))
  /\ UNCHANGED <<heapVars, asyncVars>>

MaybeFalsy ==
  /\ op = "init"
  /\ \E v \in Prims \cup {Str("")} :
       Record("Maybe.falsy", v, "none", "none", Undefined, <<>>, Maybe_falsy(v))
  /\ UNCHANGED <<heapVars, asyncVars>>

MaybeNullish ==
  /\ op = "init"
  /\ \E v \in Prims \cup {Str("")} :
       Record("Maybe.nullish", v, "none", "none", Undefined, <<>>,
              Maybe_nullish(v))
  /\ UNCHANGED <<heapVars, asyncVars>>

ResultFlatten ==
  /\ op = "init"
  /\ \E r \in Results :
       Record("Result.flatten", r, "none", "none", Undefined, <<>>,
              Result_flatten(r))
  /\ UNCHANGED <<heapVars, asyncVars>>

ResultMap ==
  /\ op = "init"
  /\ \E r \in Results, f \in Fns :
       Record("Result.map", r, f, "none", Undefined, <<>>, Result_map(r, f))
  /\ UNCHANGED <<heapVars, asyncVars>>

ResultMapErr ==
  /\ op = "init"
  /\ \E r \in Results, f \in Fns :
       Record("Result.mapErr", r, f, "none", Undefined, <<>>, Result_mapErr(r, f))
  /\ UNCHANGED <<heapVars, asyncVars>>

ResultMatch ==
  /\ op = "init"
  /\ \E r \in Results, f \in Fns, g \in Fns :
       Record("Result.match", r, f, g, Undefined, <<>>, Result_match(r, f, g))
  /\ UNCHANGED <<heapVars, asyncVars>>

ResultUnwrap ==
  /\ op = "init"
  /\ \E r \in Results :
       Record("Result.unwrap", r, "none", "none", Undefined, <<>>,
              Result_unwrap(r))
  /\ UNCHANGED <<heapVars, asyncVars>>

ResultUnwrapErr ==
  /\ op = "init"
  /\ \E r \in Results :
       Record("Result.unwrapErr", r, "none", "none", Undefined, <<>>,
              Result_unwrapErr(r))
  /\ UNCHANGED <<heapVars, asyncVars>>

ResultUnwrapOr ==
  /\ op = "init"
  /\ \E r \in Results, a \in Prims :
       Record("Result.unwrapOr", r, "none", "none", a, <<>>,
              Result_unwrapOr(r, a))
  /\ UNCHANGED <<heapVars, asyncVars>>

ResultUnwrapOrElse ==
  /\ op = "init"
  /\ \E r \in Results, f \in Fns :
       Record("Result.unwrapOrElse", r, f, "none", Undefined, <<>>,
              Result_unwrapOrElse(r, f))
  /\ UNCHANGED <<heapVars, asyncVars>>

ResultUnwrapOrThrow ==
  /\ op = "init"
  /\ \E r \in Results :
       Record("Result.unwrapOrThrow", r, "none", "none", Undefined, <<>>,
              Result_unwrapOrThrow(r))
  /\ UNCHANGED <<heapVars, asyncVars>>

ResultJson ==
  /\ op = "init"
  /\ \E r \in Results :
       Record("Result.json", r, "none", "none", Undefined, <<>>, Result_json(r))
  /\ UNCHANGED <<heapVars, asyncVars>>

\* Result.parse of the wire form the last json() call produced
ResultParse ==
  /\ op = "Result.json"
  /\ out.tag = "return"
  /\ Record("Result.parse", self, "none", "none", out.val, <<>>,
            Result_parse(out.val))
  /\ UNCHANGED <<heapVars, asyncVars>>

ResultAll ==
  /\ op = "init"
  /\ \E l \in SeqsUpTo(AllElems, MaxLen) :
       Record("Result.all", Undefined, "none", "none", Undefined, l,
              Result_all(l))
  /\ UNCHANGED <<heapVars, asyncVars>>

ResultThrowErr ==
  /\ op = "init"
  /\ \E r \in Results :
       Record("Result.throwErr", r, "none", "none", Undefined, <<>>,
              Result_throwErr(r))
  /\ UNCHANGED <<heapVars, asyncVars>>

ResultWrap ==
  /\ op = "init"
  /\ \E f \in Fns, x \in Payloads :
       Record("Result.wrap", x, f, "none", Undefined, <<>>, Result_wrap(f, x))
  /\ UNCHANGED <<heapVars, asyncVars>>

OpInit ==
  /\ op = "init"
  /\ self = Undefined
  /\ fn = "none"
  /\ fn2 = "none"
  /\ alt = Undefined
  /\ list = <<>>
  /\ out = Return(Undefined, <<>>)

\* the heap once the module is loaded: the shared None, frozen
HeapLoaded ==
  /\ heap = <<NoneObject>>
  /\ built = <<NoneObject.own>>

AsyncIdle ==
  /\ pc = "idle"
  /\ kindOfFn = "none"
  /\ payload = Undefined
  /\ promise = [val |-> Undefined, state |-> "none"]
  /\ resultP = [val |-> Undefined, state |-> "none"]
  /\ callerExc = Undefined

Init == OpInit /\ HeapLoaded /\ AsyncIdle

Next ==
  \/ MaybeFilter \/ MaybeInspect \/ MaybeIsSomeAnd \/ MaybeMap \/ MaybeOr
  \/ MaybeUnwrap \/ MaybeUnwrapOr \/ MaybeUnwrapOrElse \/ MaybeJson
  \/ MaybeParse \/ MaybeFlatten \/ MaybeEq \/ MaybeFalsy \/ MaybeNullish
  \/ ResultFlatten \/ ResultMap \/ ResultMapErr \/ ResultMatch
  \/ ResultUnwrap \/ ResultUnwrapErr \/ ResultUnwrapOr \/ ResultUnwrapOrElse
  \/ ResultUnwrapOrThrow \/ ResultJson \/ ResultParse \/ ResultAll
  \/ ResultThrowErr \/ ResultWrap

Spec == Init /\ [][Next]_vars

----------------------------------------------------------------------------
(* Properties of single calls, checked under Spec *)

MaybeOps ==
  {"Maybe.filter", "Maybe.inspect", "Maybe.isSomeAnd", "Maybe.map",
   "Maybe.or", "Maybe.unwrap", "Maybe.unwrapOr", "Maybe.unwrapOrElse",
   "Maybe.json", "Maybe.flatten"}

ResultOps ==
  {"Result.flatten", "Result.map", "Result.mapErr", "Result.match",
   "Result.unwrap", "Result.unwrapErr", "Result.unwrapOr",
   "Result.unwrapOrElse", "Result.unwrapOrThrow", "Result.json",
   "Result.throwErr"}

\* C1: parse after json gives back the variant and the payload, for Maybe
\* and for Result, whatever the payload is.
C1_RoundTrip ==
  /\ op = "Maybe.parse" =>
       /\ out.tag = "return"
       /\ out.val.kind = "Maybe"
       /\ out.val.isSome = self.isSome
       /\ out.val.value = self.value
  /\ op = "Result.parse" =>
       /\ out.tag = "return"
       /\ out.val.kind = "Result"
       /\ out.val.isOk = self.isOk
       /\ out.val.value = self.value
       /\ out.val.error = self.error

\* an Err whose payload is an object carrying "#ok", decoded
C1_Witness ==
  /\ op = "Result.parse"
  /\ self = Err(Obj("#ok", Undefined))
  /\ alt = Obj("#err", Obj("#ok", Undefined))

\* the success payloads, and the error payloads, of an array of results
OkPayloads(results) ==
  LET oks == SelectSeq(results, LAMBDA r : r.isOk)
  IN  [i \in 1..Len(oks) |-> oks[i].value]
ErrPayloads(results) ==
  LET errs == SelectSeq(results, LAMBDA r : ~r.isOk)
  IN  [i \in 1..Len(errs) |-> errs[i].error]

\* C2: Result.all returns Ok of all success payloads in order when no
\* element is an Err, and otherwise Err of all error payloads in order.
C2_AllFailSlow ==
  op = "Result.all" =>
    /\ out.tag = "return"
    /\ out.val.kind = "Result"
    /\ IF \A i \in 1..Len(list) : list[i].isOk
         THEN /\ out.val.isOk
              /\ out.val.value.kind = "array"
              /\ Len(out.val.value.items) = Len(list)
              /\ \A i \in 1..Len(list) :
                   out.val.value.items[i] = list[i].value
         ELSE /\ ~out.val.isOk
              /\ out.val.error.kind = "array"
              /\ Len(out.val.error.items) = Len(ErrPayloads(list))
              /\ \A i \in 1..Len(ErrPayloads(list)) :
                   out.val.error.items[i] = ErrPayloads(list)[i]

\* a success followed by two errors
C2_Witness ==
  /\ op = "Result.all"
  /\ list = <<Ok(Num(1)), Err(Str("boom")), Err(Undefined)>>
  /\ out.val = Err(Arr(<<Str("boom"), Undefined>>))

\* C6: unwrap and unwrapErr return the payload on the matching variant and
\* raise a fresh library error, never the payload, on the other one.
C6_UnwrapContract ==
  /\ op = "Maybe.unwrap" =>
       IF self.isSome
         THEN out = Return(self.value, <<>>)
         ELSE out.tag = "throw" /\ IsViolation(out.val)
  /\ op = "Result.unwrap" =>
       IF self.isOk
         THEN out = Return(self.value, <<>>)
         ELSE out.tag = "throw" /\ IsViolation(out.val) /\ out.val # self.error
  /\ op = "Result.unwrapErr" =>
       IF ~self.isOk
         THEN out = Return(self.error, <<>>)
         ELSE out.tag = "throw" /\ IsViolation(out.val) /\ out.val # self.value

\* unwrap of a present but undefined payload
C6_Witness ==
  /\ op = "Maybe.unwrap"
  /\ self = Some(Undefined)
  /\ out.tag = "return"

\* C8: map leaves an Err as it is and mapErr leaves an Ok as it is, without
\* invoking f; on the matching variant f is invoked once, on the payload, and
\* its result is wrapped in the same variant.
C8_MapIndependence ==
  /\ op = "Result.map" /\ ~self.isOk => out = Return(self, <<>>)
  /\ op = "Result.mapErr" /\ self.isOk => out = Return(self, <<>>)
  /\ op = "Result.map" /\ self.isOk =>
       /\ out.calls = <<[f |-> fn, x |-> self.value]>>
       /\ fn \in TotalFns =>
            out.tag = "return" /\ out.val = Ok(Apply(fn, self.value).val)
  /\ op = "Result.mapErr" /\ ~self.isOk =>
       /\ out.calls = <<[f |-> fn, x |-> self.error]>>
       /\ fn \in TotalFns =>
            out.tag = "return" /\ out.val = Err(Apply(fn, self.error).val)

\* map over an Err with a callback that would have raised
C8_Witness ==
  /\ op = "Result.map"
  /\ ~self.isOk
  /\ fn = "throwBoom"
  /\ out.tag = "return"

\* C9: flatten of a nested container gives the inner one, flatten of None
\* gives None, and flatten of an Err gives that Err whatever its payload.
C9_FlattenLaws ==
  /\ op = "Maybe.flatten" /\ ~self.isSome => out = Return(None, <<>>)
  /\ op = "Maybe.flatten" /\ self.isSome /\ self.value.kind = "Maybe" =>
       out = Return(self.value, <<>>)
  /\ op = "Result.flatten" /\ ~self.isOk => out = Return(self, <<>>)
  /\ op = "Result.flatten" /\ self.isOk /\ self.value.kind = "Result" =>
       out = Return(self.value, <<>>)

\* flatten of an Err whose payload is no Result
C9_Witness ==
  /\ op = "Result.flatten"
  /\ self = Err(Undefined)
  /\ out.tag = "return"

\* C10: unwrapOrThrow and throwErr raise the error payload itself on an Err
\* and return normally on an Ok; no other Result operation, given callbacks
\* that do not raise, raises the error payload.
C10_ThrowBridges ==
  /\ op = "Result.unwrapOrThrow" =>
       out = IF self.isOk THEN Return(self.value, <<>>)
                          ELSE Throw(self.error, <<>>)
  /\ op = "Result.throwErr" =>
       out = IF self.isOk THEN Return(Undefined, <<>>)
                          ELSE Throw(self.error, <<>>)
  /\ /\ op \in ResultOps \ {"Result.unwrapOrThrow", "Result.throwErr"}
     /\ fn \in TotalFns \cup {"none"}
     /\ fn2 \in TotalFns \cup {"none"}
     /\ out.tag = "throw"
     => IsViolation(out.val) /\ out.val # self.error
  /\ op = "Result.all" => out.tag = "return"

\* unwrapOrThrow of an Err that holds the caller's Error object
C10_Witness ==
  /\ op = "Result.unwrapOrThrow"
  /\ self = Err(UserError)
  /\ out = Throw(UserError, <<>>)

\* the structural test flatten applies: an object with a boolean field k
HasBooleanField(v, k) ==
  \/ v.kind = "Maybe" /\ k = "isSome"
  \/ v.kind = "Result" /\ k = "isOk"
  \/ /\ v.kind = "object"
     /\ k \in DOMAIN v.fields
     /\ v.fields[k].kind = "boolean"

\* C5 as stated: flatten raises on every payload that is no Maybe built by
\* Some/None (no Result built by Ok/Err), and returns only containers of the
\* matching kind.
C5_Original ==
  /\ op = "Maybe.flatten" /\ self.isSome /\ self.value.kind # "Maybe" =>
       out.tag = "throw"
  /\ op = "Result.flatten" /\ self.isOk /\ self.value.kind # "Result" =>
       out.tag = "throw"
  /\ op = "Maybe.flatten" /\ out.tag = "return" => out.val.kind = "Maybe"
  /\ op = "Result.flatten" /\ out.tag = "return" => out.val.kind = "Result"

\* C5 as amended: flatten raises a library error on every payload that is not
\* an object with a boolean isSome field (isOk for Result), and returns only
\* None, the receiver itself when it is an Err, or a payload of that shape.
C5_FlattenShapeCheck ==
  /\ op = "Maybe.flatten" /\ self.isSome
       /\ ~HasBooleanField(self.value, "isSome") =>
       out.tag = "throw" /\ IsViolation(out.val)
  /\ op = "Result.flatten" /\ self.isOk
       /\ ~HasBooleanField(self.value, "isOk") =>
       out.tag = "throw" /\ IsViolation(out.val)
  /\ op = "Maybe.flatten" /\ out.tag = "return" =>
       out.val = None \/ HasBooleanField(out.val, "isSome")
  /\ op = "Result.flatten" /\ out.tag = "return" =>
       out.val = self \/ HasBooleanField(out.val, "isOk")

\* flatten of a payload that is an object whose isSome field is no boolean
C5_Witness ==
  /\ op = "Maybe.flatten"
  /\ self = Some(Obj("isSome", Num(1)))
  /\ out.tag = "throw"

\* the callback broke a contract of the library while the call ran
ViolationRaised ==
  /\ out.calls # <<>>
  /\ out.calls[Len(out.calls)].f \in MisuseFns

\* the call returned an Err that carries a contract-violation error
ReturnsViolationAsErr ==
  /\ out.tag = "return"
  /\ out.val.kind = "Result"
  /\ ~out.val.isOk
  /\ IsViolation(out.val.error)

\* C4 as stated: no library call, Result.wrap included, turns a contract
\* violation into an Err; the violation propagates as an exception.
C4_Original ==
  /\ ViolationRaised => out.tag = "throw" /\ IsViolation(out.val)
  /\ ~ReturnsViolationAsErr

\* C4 as amended: every call but Result.wrap lets a contract violation
\* propagate as an exception and returns no Err carrying it; Result.wrap
\* returns the violation as Err, as it does any other exception.
C4_OnlyWrapCaptures ==
  /\ op # "Result.wrap" =>
       /\ ViolationRaised => out.tag = "throw" /\ IsViolation(out.val)
       /\ ~ReturnsViolationAsErr
  /\ op = "Result.wrap" /\ ViolationRaised =>
       out.tag = "return" /\ out.val = Err(Apply(fn, self).val)

\* a callback that unwraps None, run under map
C4_Witness ==
  /\ op = "Result.map"
  /\ fn = "misuseUnwrap"
  /\ self.isOk
  /\ out.tag = "throw"

----------------------------------------------------------------------------
(* The heap: calls on instances held by reference *)

HeapPrims == {Undefined}
HeapValues == HeapPrims \cup {Ref(a) : a \in 1..Len(heap)}
HeapFns == {"constant", "throwBoom"}

\* the fields of the instance at address a
View(a) == heap[a].own

\* a payload with a reference followed to the instance it names
Deref(v) == IF v.kind = "ref" THEN heap[v.addr].own ELSE v

IsMaybeAt(a) == heap[a].own.kind = "Maybe"
IsResultAt(a) == heap[a].own.kind = "Result"

\* a call that made a new instance and returned it
Alloc(name, obj) ==
  /\ Len(heap) < MaxHeap
  /\ heap' = Append(heap, obj)
  /\ built' = Append(built, obj.own)
  /\ op' = name
  /\ out' = Return(Ref(Len(heap) + 1), <<>>)

\* a call that made no instance
Keep(name, o) ==
  /\ UNCHANGED <<heap, built>>
  /\ op' = name
  /\ out' = o

Frame == UNCHANGED <<self, fn, fn2, alt, list, asyncVars>>

HeapSome ==
  /\ \E v \in HeapValues : Alloc("Some", SomeObject(v))
  /\ Frame

HeapOk ==
  /\ \E v \in HeapValues : Alloc("Ok", OkObject(v))
  /\ Frame

HeapErr ==
  /\ \E e \in HeapValues : Alloc("Err", ErrObject(e))
  /\ Frame

\* the TypeError strict-mode code gets on a failed assignment
TypeError == NewError("Cannot assign to read only property", "caller")

\* the caller's `obj.k = v` on the instance at address a: isNone and isErr are
\* getters without a setter, every other field is an own data property
HeapAssign ==
  /\ \E a \in 1..Len(heap), strictMode \in BOOLEAN :
       \E k \in (DOMAIN heap[a].own \ {"kind"}) \cup {"isNone", "isErr"} :
         \E v \in IF k \in {"isSome", "isOk"} THEN {~heap[a].own[k]}
                                               ELSE {Num(0)} :
           IF heap[a].frozen \/ k \in {"isNone", "isErr"}
             THEN Keep("assign", IF strictMode THEN Throw(TypeError, <<>>)
                                               ELSE Return(Undefined, <<>>))
             ELSE /\ heap' = [heap EXCEPT ![a].own[k] = v]
                  /\ UNCHANGED built
                  /\ op' = "assign"
                  /\ out' = Return(Undefined, <<>>)
  /\ Frame

HeapMap ==
  /\ \E a \in 1..Len(heap), f \in HeapFns :
       LET this == View(a)
           r == IF this.kind = "Maybe" THEN Maybe_map(this, f)
                                       ELSE Result_map(this, f)
       IN  CASE r.tag = "throw" -> Keep("map", r)
             [] r.tag = "return" /\ this.kind = "Maybe" /\ this.isSome ->
                  Alloc("map", SomeObject(r.val.value))
             [] r.tag = "return" /\ this.kind = "Maybe" /\ ~this.isSome ->
                  Keep("map", Return(Ref(NoneAddr), <<>>))
             [] r.tag = "return" /\ this.kind = "Result" /\ this.isOk ->
                  Alloc("map", OkObject(r.val.value))
             [] OTHER -> Keep("map", Return(Ref(a), <<>>))
  /\ Frame

HeapMapErr ==
  /\ \E a \in 1..Len(heap), f \in HeapFns :
       /\ IsResultAt(a)
       /\ LET r == Result_mapErr(View(a), f)
          IN  CASE r.tag = "throw" -> Keep("mapErr", r)
                [] r.tag = "return" /\ ~View(a).isOk ->
                     Alloc("mapErr", ErrObject(r.val.error))
                [] OTHER -> Keep("mapErr", Return(Ref(a), <<>>))
  /\ Frame

HeapFilter ==
  /\ \E a \in 1..Len(heap), f \in HeapFns :
       /\ IsMaybeAt(a)
       /\ LET r == Maybe_filter(View(a), f)
          IN  CASE r.tag = "throw" -> Keep("filter", r)
                [] r.tag = "return" /\ r.val.isSome ->
                     Keep("filter", Return(Ref(a), r.calls))
                [] OTHER -> Keep("filter", Return(Ref(NoneAddr), r.calls))
  /\ Frame

HeapInspect ==
  /\ \E a \in 1..Len(heap), f \in HeapFns :
       /\ IsMaybeAt(a)
       /\ LET r == Maybe_inspect(View(a), f)
          IN  IF r.tag = "throw" THEN Keep("inspect", r)
              ELSE Keep("inspect", Return(Ref(a), r.calls))
  /\ Frame

HeapOr ==
  /\ \E a \in 1..Len(heap), b \in 1..Len(heap) :
       /\ IsMaybeAt(a)
       /\ IsMaybeAt(b)
       /\ Keep("or", Return(Ref(IF View(a).isSome THEN a ELSE b), <<>>))
  /\ Frame

HeapFlatten ==
  /\ \E a \in 1..Len(heap) :
       LET this == [View(a) EXCEPT !.value = Deref(@)]
           r == IF this.kind = "Maybe" THEN Maybe_flatten(this)
                                       ELSE Result_flatten(this)
       IN  CASE r.tag = "throw" -> Keep("flatten", r)
             [] r.tag = "return" /\ this.kind = "Maybe" /\ r.val = None ->
                  Keep("flatten", Return(Ref(NoneAddr), <<>>))
             [] r.tag = "return" /\ this.kind = "Result" /\ ~this.isOk ->
                  Keep("flatten", Return(Ref(a), <<>>))
             [] OTHER -> Keep("flatten", Return(View(a).value, <<>>))
  /\ Frame

HeapMatch ==
  /\ \E a \in 1..Len(heap), f \in HeapFns, g \in HeapFns :
       /\ IsResultAt(a)
       /\ Keep("match", Result_match(View(a), f, g))
  /\ Frame

HeapUnwrap ==
  /\ \E a \in 1..Len(heap) :
       Keep("unwrap", IF IsMaybeAt(a) THEN Maybe_unwrap(View(a))
                                      ELSE Result_unwrap(View(a)))
  /\ Frame

HeapUnwrapErr ==
  /\ \E a \in 1..Len(heap) :
       /\ IsResultAt(a)
       /\ Keep("unwrapErr", Result_unwrapErr(View(a)))
  /\ Frame

HeapJson ==
  /\ \E a \in 1..Len(heap) :
       Keep("json", IF IsMaybeAt(a) THEN Maybe_json(View(a))
                                    ELSE Result_json(View(a)))
  /\ Frame

\* Maybe.parse or Result.parse of the wire form the last json() call produced
HeapParse ==
  /\ op = "json"
  /\ IF out.val = Null
       THEN Keep("parse", Return(Ref(NoneAddr), <<>>))
     ELSE IF In("#some", out.val)
       THEN Alloc("parse", SomeObject(Maybe_parse(out.val).val.value))
     ELSE IF Result_parse(out.val).val.isOk
       THEN Alloc("parse", OkObject(Result_parse(out.val).val.value))
     ELSE Alloc("parse", ErrObject(Result_parse(out.val).val.error))
  /\ Frame

HeapEq ==
  /\ \E a \in 1..Len(heap), b \in 1..Len(heap) :
       /\ IsMaybeAt(a)
       /\ IsMaybeAt(b)
       /\ Keep("eq", Maybe_eq(View(a), View(b), "default"))
  /\ Frame

HeapAll ==
  /\ \E l \in SeqsUpTo({a \in 1..Len(heap) : IsResultAt(a)}, 2) :
       LET r == Result_all([i \in 1..Len(l) |-> View(l[i])])
       IN  IF r.val.isOk THEN Alloc("all", OkObject(r.val.value))
                         ELSE Alloc("all", ErrObject(r.val.error))
  /\ Frame

HeapNext ==
  \/ HeapSome \/ HeapOk \/ HeapErr \/ HeapAssign \/ HeapMap \/ HeapMapErr
  \/ HeapFilter \/ HeapInspect \/ HeapOr \/ HeapFlatten \/ HeapMatch
  \/ HeapUnwrap \/ HeapUnwrapErr \/ HeapJson \/ HeapParse \/ HeapEq
  \/ HeapAll

HeapSpec == Init /\ [][HeapNext]_vars

\* C7: every instance alive, the shared None included, has the discriminant
\* and payload its constructor set, whatever calls and field assignments
\* followed; its two discriminants disagree; and a Result holds no error
\* payload when isOk and no success payload when isErr.
C7_Immutable ==
  /\ Len(heap) >= 1
  /\ heap[NoneAddr].own = None
  /\ \A a \in 1..Len(heap) :
       /\ heap[a].own = built[a]
       /\ IsMaybeAt(a) =>
            Get(View(a), "isSome") = Bool(~Get(View(a), "isNone").b)
       /\ IsResultAt(a) =>
            /\ Get(View(a), "isOk") = Bool(~Get(View(a), "isErr").b)
            /\ View(a).isOk => View(a).error = Undefined
            /\ ~View(a).isOk => View(a).value = Undefined

\* strict-mode code tried to overwrite the payload of a Some and got a
\* TypeError
C7_Witness ==
  /\ op = "assign"
  /\ out = Throw(TypeError, <<>>)
  /\ Len(heap) >= 2
  /\ \E a \in 2..Len(heap) : heap[a].own = Some(Num(1))

----------------------------------------------------------------------------
(* Result.wrapAsync and Result.wrapPromise, step by step *)

Pending == [val |-> Undefined, state |-> "pending"]
Fulfilled(v) == [val |-> v, state |-> "fulfilled"]
Rejected(e) == [val |-> e, state |-> "rejected"]

\* what a wrapped computation may produce or fail with
AsyncPayloads ==
  {Undefined, Str("x"), Str("y"), UserError,
   Maybe_unwrap(None).val, Result_unwrapErr(Ok(Undefined)).val}

\* the promise wrapPromise(p) returned, given the state of p: the body runs
\* to `await promise` and resumes when p is settled
wrapPromise(p) ==
  CASE p.state = "fulfilled" -> Fulfilled(Ok(p.val))
    [] p.state = "rejected" -> Fulfilled(Err(p.val))
    [] OTHER -> Pending

\* Result.wrapAsync(fn)(...args): fn is called first, then wrapPromise on
\* what it returned.  An async function that fails before its first await
\* returns a rejected promise; a function that is not async throws.
CallWrapAsync ==
  /\ pc = "idle"
  /\ \E k \in {"async function", "function"},
        first \in {"throws", "awaits", "returns"}, v \in AsyncPayloads :
       /\ kindOfFn' = k
       /\ payload' = IF first = "awaits" THEN Undefined ELSE v
       /\ IF first = "throws" /\ k = "function"
            THEN /\ pc' = "raised"
                 /\ callerExc' = v
                 /\ UNCHANGED <<promise, resultP>>
            ELSE /\ pc' = "awaiting"
                 /\ promise' = CASE first = "throws" -> Rejected(v)
                                 [] first = "returns" -> Fulfilled(v)
                                 [] OTHER -> Pending
                 /\ resultP' = Pending
                 /\ UNCHANGED callerExc
  /\ UNCHANGED <<opVars, heapVars>>

\* Result.wrapPromise(promise), on a promise in any state
CallWrapPromise ==
  /\ pc = "idle"
  /\ \E p \in {Pending} \cup {Fulfilled(v) : v \in AsyncPayloads}
                \cup {Rejected(v) : v \in AsyncPayloads} :
       /\ promise' = p
       /\ payload' = p.val
  /\ kindOfFn' = "promise"
  /\ pc' = "awaiting"
  /\ resultP' = Pending
  /\ UNCHANGED <<callerExc, opVars, heapVars>>

\* the wrapped computation completes or fails after a suspension
Settle ==
  /\ pc = "awaiting"
  /\ promise.state = "pending"
  /\ \E v \in AsyncPayloads : promise' \in {Fulfilled(v), Rejected(v)}
  /\ UNCHANGED <<pc, kindOfFn, payload, resultP, callerExc, opVars, heapVars>>

\* wrapPromise resumes after its await and settles the promise it returned
Resume ==
  /\ pc = "awaiting"
  /\ promise.state # "pending"
  /\ resultP' = wrapPromise(promise)
  /\ pc' = "done"
  /\ UNCHANGED <<kindOfFn, payload, promise, callerExc, opVars, heapVars>>

AsyncNext == CallWrapAsync \/ CallWrapPromise \/ Settle \/ Resume

AsyncSpec == Init /\ [][AsyncNext]_vars

\* C3: a call of wrapAsync(fn)(...args) or wrapPromise(p) never raises to
\* its caller, the promise it returns never rejects, and once the wrapped
\* computation has completed or failed that promise holds Ok of the value or
\* Err of the reason.
C3_NeverRaises ==
  /\ pc # "raised"
  /\ resultP.state # "rejected"
  /\ pc = "done" =>
       resultP = IF promise.state = "fulfilled"
                   THEN Fulfilled(Ok(promise.val))
                   ELSE Fulfilled(Err(promise.val))

====
